---- MODULE Spec2Model ----
(***************************************************************************)
(* State-machine model of the training-session core of ccw-trainer:        *)
(* TrainingModule (js/training.js), generateFeedback (js/feedback.js) and  *)
(* the detection loop of VisionEngine (js/vision.js).                      *)
(*                                                                         *)
(* Numbers.  Date.now() is an integer count of milliseconds and is kept as *)
(* one.  Normalised vertical coordinates (0..1) are kept in hundredths, so *)
(* the margins 0.05 and 0.15 are 5 and 15; the stance ratio is kept in     *)
(* hundredths as well.  JavaScript null (and the undefined of a field the  *)
(* constructor never sets) is Null for numeric fields, "null" for the      *)
(* tri-state gripTwoHand and NoModule for a module name.                   *)
(*                                                                         *)
(* A frame callback is synchronous and is modelled as running at a single  *)
(* instant of the clock `now`.                                             *)
(***************************************************************************)
EXTENDS Integers, Sequences, FiniteSets, TLC

\* ------------------------------------------------------------ constants
Null == -1
NoModule == "none"
Modules == {"stance", "grip", "draw", "full"}
DrawModules == {"draw", "full"}

ThrottleMs == 1000
ArmMargin == 5
RaiseMargin == 15
SlowDrawCentis == 250
StanceMin == 100
StanceMax == 200

\* ---------------------------------------------------------------- bounds
\* The clock at page load (Date.now() is far beyond ThrottleMs), the span of
\* clock time explored, the number of concurrently live detection loops and
\* the number of entries the durable log may hold.
Epoch == 5000
Horizon == 1001
MaxLoops == 2
MaxEntries == 1

MaxClock == Epoch + Horizon
Deltas == {1000, 1001}

\* ------------------------------------------------------------------ state
VARIABLES
  now,                \* Date.now()
  activeModule,       \* TrainingModule.activeModule
  sessionActive,      \* TrainingModule.sessionActive
  lastFeedbackTime,   \* TrainingModule.lastFeedbackTime
  drawBaselineY,      \* TrainingModule.drawBaselineY
  drawStartTime,      \* TrainingModule.drawStartTime
  completedDrawTime,  \* TrainingModule.completedDrawTime
  logEl,              \* the paragraphs of the log element (its innerText)
  ccw_logs,           \* localStorage['ccw_logs']
  onPose,             \* VisionEngine.onPose: NoModule for the constructor's
                      \* no-op, else the module captured by start()'s closure
  detector,           \* VisionEngine.detector !== null
  running,            \* VisionEngine.running
  inferring,          \* loops awaiting detector.estimatePoses
  scheduled,          \* loops waiting in requestAnimationFrame
  obs,                \* the last operation: its arguments and what it called
  hist,               \* history of the current session (see HistStart)
  page                \* the page's buttons and module selector, and its pending Start clicks

vars == <<now, activeModule, sessionActive, lastFeedbackTime, drawBaselineY,
          drawStartTime, completedDrawTime, logEl, ccw_logs, onPose, detector,
          running, inferring, scheduled, obs, hist, page>>

trainingVars == <<activeModule, sessionActive, lastFeedbackTime, drawBaselineY,
                  drawStartTime, completedDrawTime, logEl, ccw_logs, onPose>>

\* ------------------------------------------------------- metrics records
\* MetricsRecord as returned by computeMetrics.
Metrics(sr, grip, wy, hy) ==
  [stanceRatio |-> sr, gripTwoHand |-> grip, wristY |-> wy, hipY |-> hy]

NoMetrics == Metrics(Null, "null", Null, Null)

\* The records the detection loop delivers: the wrist below the hip past the
\* arming margin (56 > 50 + 5) and exactly on it (55), the wrist above the hip
\* past the raise margin (34 < 50 - 15) and exactly on it (35), and the wrist or
\* the hip dropped out.  The ankles and the second wrist are out of view in all
\* of them, so stanceRatio and gripTwoHand are null.
MetricsInputs ==
  { Metrics(Null, "null", 56, 50),
    Metrics(Null, "null", 55, 50),
    Metrics(Null, "null", 34, 50),
    Metrics(Null, "null", 35, 50),
    Metrics(Null, "null", Null, 50),
    Metrics(Null, "null", 34, Null) }

\* ------------------------------------------------------------- feedback
Msg(text, module, secs) == [text |-> text, module |-> module, secs |-> secs]

\* (drawTime / 1000).toFixed(2), as a count of hundredths of a second.  A
\* duration ending in 5 ms is a tie that toFixed settles on the binary value of
\* the quotient; the clock values explored never produce one.
ToFixed2(drawTime) == (drawTime + 5) \div 10

\* The message texts of feedback.js, by the rule that pushes them.
StanceNarrow == "Stand with your feet wider for better stability."
StanceWide == "Feet are too far apart; narrow your stance slightly."
StanceGood == "Good stance width."
GripOneHand == "Use both hands for better control and stability."
GripGood == "Good two-handed grip."
DrawSlow == "Draw time - practice to shave it down."
DrawGood == "Draw time - nice work!"

\* generateFeedback as it would be if a ratio exactly on the upper threshold
\* counted as too wide.
generateFeedbackWideAtMax(metrics, module, drawTime) ==
  LET stance ==
        IF module \in {"stance", "full"} /\ metrics.stanceRatio # Null
        THEN IF metrics.stanceRatio < StanceMin THEN <<Msg(StanceNarrow, NoModule, Null)>>
             ELSE IF metrics.stanceRatio >= StanceMax THEN <<Msg(StanceWide, NoModule, Null)>>
             ELSE <<Msg(StanceGood, NoModule, Null)>>
        ELSE <<>>
      grip ==
        IF module \in {"grip", "full"}
        THEN IF metrics.gripTwoHand = "false" THEN <<Msg(GripOneHand, NoModule, Null)>>
             ELSE IF metrics.gripTwoHand = "true" THEN <<Msg(GripGood, NoModule, Null)>>
             ELSE <<>>
        ELSE <<>>
      draw ==
        IF module \in {"draw", "full"} /\ drawTime # Null
        THEN IF ToFixed2(drawTime) > SlowDrawCentis
             THEN <<Msg(DrawSlow, NoModule, ToFixed2(drawTime))>>
             ELSE <<Msg(DrawGood, NoModule, ToFixed2(drawTime))>>
        ELSE <<>>
  IN stance \o grip \o draw

\* generateFeedback as it would be if the grip rule ran for every module.
generateFeedbackGripAlways(metrics, module, drawTime) ==
  LET stance ==
        IF module \in {"stance", "full"} /\ metrics.stanceRatio # Null
        THEN IF metrics.stanceRatio < StanceMin THEN <<Msg(StanceNarrow, NoModule, Null)>>
             ELSE IF metrics.stanceRatio > StanceMax THEN <<Msg(StanceWide, NoModule, Null)>>
             ELSE <<Msg(StanceGood, NoModule, Null)>>
        ELSE <<>>
      grip ==
        IF metrics.gripTwoHand = "false" THEN <<Msg(GripOneHand, NoModule, Null)>>
        ELSE IF metrics.gripTwoHand = "true" THEN <<Msg(GripGood, NoModule, Null)>>
        ELSE <<>>
      draw ==
        IF module \in {"draw", "full"} /\ drawTime # Null
        THEN IF ToFixed2(drawTime) > SlowDrawCentis
             THEN <<Msg(DrawSlow, NoModule, ToFixed2(drawTime))>>
             ELSE <<Msg(DrawGood, NoModule, ToFixed2(drawTime))>>
        ELSE <<>>
  IN stance \o grip \o draw

\* generateFeedback as it would be if the draw rule ran before the other two.
generateFeedbackDrawFirst(metrics, module, drawTime) ==
  LET stance ==
        IF module \in {"stance", "full"} /\ metrics.stanceRatio # Null
        THEN IF metrics.stanceRatio < StanceMin THEN <<Msg(StanceNarrow, NoModule, Null)>>
             ELSE IF metrics.stanceRatio > StanceMax THEN <<Msg(StanceWide, NoModule, Null)>>
             ELSE <<Msg(StanceGood, NoModule, Null)>>
        ELSE <<>>
      grip ==
        IF module \in {"grip", "full"}
        THEN IF metrics.gripTwoHand = "false" THEN <<Msg(GripOneHand, NoModule, Null)>>
             ELSE IF metrics.gripTwoHand = "true" THEN <<Msg(GripGood, NoModule, Null)>>
             ELSE <<>>
        ELSE <<>>
      draw ==
        IF module \in {"draw", "full"} /\ drawTime # Null
        THEN IF ToFixed2(drawTime) > SlowDrawCentis
             THEN <<Msg(DrawSlow, NoModule, ToFixed2(drawTime))>>
             ELSE <<Msg(DrawGood, NoModule, ToFixed2(drawTime))>>
        ELSE <<>>
  IN draw \o stance \o grip

\* generateFeedback(metrics, module, drawTime): the list of messages.
generateFeedback(metrics, module, drawTime) ==
  LET stance ==
        IF module \in {"stance", "full"} /\ metrics.stanceRatio # Null
        THEN IF metrics.stanceRatio < StanceMin
             THEN <<Msg(StanceNarrow, NoModule, Null)>>
             ELSE IF metrics.stanceRatio > StanceMax
             THEN <<Msg(StanceWide, NoModule, Null)>>
             ELSE <<Msg(StanceGood, NoModule, Null)>>
        ELSE <<>>
      grip ==
        IF module \in {"grip", "full"}
        THEN IF metrics.gripTwoHand = "false"
             THEN <<Msg(GripOneHand, NoModule, Null)>>
             ELSE IF metrics.gripTwoHand = "true"
             THEN <<Msg(GripGood, NoModule, Null)>>
             ELSE <<>>
        ELSE <<>>
      draw ==
        IF module \in {"draw", "full"} /\ drawTime # Null
        THEN IF ToFixed2(drawTime) > SlowDrawCentis
             THEN <<Msg(DrawSlow, NoModule, ToFixed2(drawTime))>>
             ELSE <<Msg(DrawGood, NoModule, ToFixed2(drawTime))>>
        ELSE <<>>
  IN stance \o grip \o draw

\* ------------------------------------------------------------ draw timer
\* TrainingModule.handleDraw(metrics) at clock t, on the timer fields
\* (b = drawBaselineY, s = drawStartTime, c = completedDrawTime).  `emitted`
\* is the duration this call assigned to completedDrawTime, if any.
DrawState(b, s, c, e) ==
  [drawBaselineY |-> b, drawStartTime |-> s, completedDrawTime |-> c, emitted |-> e]

\* handleDraw as it would be if the arming condition restarted a running timer.
handleDrawRearms(b, s, c, metrics, t) ==
  IF metrics.wristY = Null \/ metrics.hipY = Null
  THEN DrawState(b, s, c, Null)
  ELSE IF b = Null \/ metrics.wristY > metrics.hipY + ArmMargin
       THEN IF metrics.wristY > metrics.hipY + ArmMargin
            THEN DrawState(metrics.wristY, t, c, Null)
            ELSE DrawState(b, s, c, Null)
       ELSE IF metrics.wristY < metrics.hipY - RaiseMargin
            THEN DrawState(Null, Null, t - s, t - s)
            ELSE DrawState(b, s, c, Null)

\* handleDraw as it would be if a frame without wristY or hipY reset the timer.
handleDrawResetsOnNull(b, s, c, metrics, t) ==
  IF metrics.wristY = Null \/ metrics.hipY = Null
  THEN DrawState(Null, Null, c, Null)
  ELSE IF b = Null
       THEN IF metrics.wristY > metrics.hipY + ArmMargin
            THEN DrawState(metrics.wristY, t, c, Null)
            ELSE DrawState(b, s, c, Null)
       ELSE IF metrics.wristY < metrics.hipY - RaiseMargin
            THEN DrawState(Null, Null, t - s, t - s)
            ELSE DrawState(b, s, c, Null)

\* handleDraw as it would be if a completed draw left the timer armed.
handleDrawStaysArmed(b, s, c, metrics, t) ==
  IF metrics.wristY = Null \/ metrics.hipY = Null
  THEN DrawState(b, s, c, Null)
  ELSE IF b = Null
       THEN IF metrics.wristY > metrics.hipY + ArmMargin
            THEN DrawState(metrics.wristY, t, c, Null)
            ELSE DrawState(b, s, c, Null)
       ELSE IF metrics.wristY < metrics.hipY - RaiseMargin
            THEN DrawState(b, s, t - s, t - s)
            ELSE DrawState(b, s, c, Null)

\* handleDraw as it would be if a wrist exactly on the arming margin armed it.
handleDrawArmsAtMargin(b, s, c, metrics, t) ==
  IF metrics.wristY = Null \/ metrics.hipY = Null
  THEN DrawState(b, s, c, Null)
  ELSE IF b = Null
       THEN IF metrics.wristY >= metrics.hipY + ArmMargin
            THEN DrawState(metrics.wristY, t, c, Null)
            ELSE DrawState(b, s, c, Null)
       ELSE IF metrics.wristY < metrics.hipY - RaiseMargin
            THEN DrawState(Null, Null, t - s, t - s)
            ELSE DrawState(b, s, c, Null)

\* handleDraw as it would be if a wrist exactly on the raise margin completed
\* the draw.
handleDrawRaisesAtMargin(b, s, c, metrics, t) ==
  IF metrics.wristY = Null \/ metrics.hipY = Null
  THEN DrawState(b, s, c, Null)
  ELSE IF b = Null
       THEN IF metrics.wristY > metrics.hipY + ArmMargin
            THEN DrawState(metrics.wristY, t, c, Null)
            ELSE DrawState(b, s, c, Null)
       ELSE IF metrics.wristY <= metrics.hipY - RaiseMargin
            THEN DrawState(Null, Null, t - s, t - s)
            ELSE DrawState(b, s, c, Null)

\* handleDraw as it would be with a single threshold: armed by a wrist past
\* the arming margin, completed by a wrist anywhere on the other side of it.
handleDrawOneThreshold(b, s, c, metrics, t) ==
  IF metrics.wristY = Null \/ metrics.hipY = Null
  THEN DrawState(b, s, c, Null)
  ELSE IF b = Null
       THEN IF metrics.wristY > metrics.hipY + ArmMargin
            THEN DrawState(metrics.wristY, t, c, Null)
            ELSE DrawState(b, s, c, Null)
       ELSE IF metrics.wristY <= metrics.hipY + ArmMargin
            THEN DrawState(Null, Null, t - s, t - s)
            ELSE DrawState(b, s, c, Null)

handleDraw(b, s, c, metrics, t) ==
  IF metrics.wristY = Null \/ metrics.hipY = Null
  THEN DrawState(b, s, c, Null)
  ELSE IF b = Null
       THEN IF metrics.wristY > metrics.hipY + ArmMargin
            THEN DrawState(metrics.wristY, t, c, Null)
            ELSE DrawState(b, s, c, Null)
       ELSE IF metrics.wristY < metrics.hipY - RaiseMargin
            THEN DrawState(Null, Null, t - s, t - s)
            ELSE DrawState(b, s, c, Null)

\* The throttle test as it would be with no minimum gap.
ThrottleAlwaysOpen(t, last) == t - last >= 0

\* The throttle test of the frame callback: now - this.lastFeedbackTime > 1000.
ThrottleOpen(t, last) == t - last > ThrottleMs

\* if (this.completedDrawTime): JavaScript truthiness of a number or null.
Truthy(x) == x # Null /\ x # 0

\* TrainingModule.log(msg)
Log(el, msg) == Append(el, msg)


\* ------------------------------------------------- observation / history
\* obs records the operation just performed: its arguments, whether the
\* controller was active when it was called, and the calls it made
\* (generateFeedback with which module and draw time, VisionEngine.stop, a
\* thrown error).
Obs(op, wasActive, emitted, fbCalled, fbModule, fbDraw, visionStop, threw) ==
  [op |-> op, wasActive |-> wasActive, emitted |-> emitted, fbCalled |-> fbCalled,
   fbModule |-> fbModule, fbDraw |-> fbDraw, visionStop |-> visionStop,
   threw |-> threw]

\* An operation of the environment or of the loop that calls nothing of the
\* controller.
ObsIdle == Obs("idle", FALSE, Null, FALSE, NoModule, Null, FALSE, FALSE)

\* hist follows the session as its caller sees it, from the calls alone:
\*   active, module  a start(module) has been called and no stop() since
\*   armTime         the clock at the frame that armed the current draw cycle
\*                   (wristY > hipY + 0.05 while unarmed), Null when unarmed
\*   dropout         a frame without wristY or hipY arrived in the latest cycle
\*                   while it was armed
\*   fbTime          the clock at the session's last generateFeedback call
\*   fbCalls         generateFeedback calls made in the session
\*   stops           stop() calls made while a session was active
\*   lines           what log() appended since the session's start()
HistInit ==
  [active |-> FALSE, module |-> NoModule, armTime |-> Null,
   dropout |-> FALSE, fbTime |-> Null, fbCalls |-> 0, stops |-> 0, lines |-> <<>>,
   unreported |-> FALSE]

HistStart(module, line) ==
  [active |-> TRUE, module |-> module, armTime |-> Null,
   dropout |-> FALSE, fbTime |-> Null, fbCalls |-> 0, stops |-> hist.stops,
   lines |-> <<line>>, unreported |-> FALSE]

HistStop(line) ==
  IF hist.active
  THEN [hist EXCEPT !.active = FALSE, !.stops = @ + 1, !.lines = Append(@, line)]
  ELSE hist

Arms(metrics) ==
  metrics.wristY # Null /\ metrics.hipY # Null /\ metrics.wristY > metrics.hipY + ArmMargin

Raises(metrics) ==
  metrics.wristY # Null /\ metrics.hipY # Null /\ metrics.wristY < metrics.hipY - RaiseMargin

Dropped(metrics) == metrics.wristY = Null \/ metrics.hipY = Null

\* The session is one in which the draw timer is fed.
Timed == hist.active /\ hist.module \in DrawModules

HistFrame(metrics, fbCalled, logged, line) ==
  LET arming == Timed /\ hist.armTime = Null /\ Arms(metrics)
      raising == Timed /\ hist.armTime # Null /\ Raises(metrics)
  IN [hist EXCEPT
        !.armTime = IF arming THEN now ELSE IF raising THEN Null ELSE @,
        !.dropout = IF arming THEN FALSE
                    ELSE IF Timed /\ hist.armTime # Null /\ Dropped(metrics) THEN TRUE
                    ELSE @,
        !.fbTime = IF fbCalled /\ hist.active THEN now ELSE @,
        !.fbCalls = IF fbCalled /\ hist.active THEN @ + 1 ELSE @,
        !.lines = IF logged THEN Append(@, line) ELSE @,
        !.unreported = IF fbCalled /\ hist.active THEN FALSE
                       ELSE IF raising THEN TRUE
                       ELSE @]

\* ------------------------------------------------------------------ page
\* The page of main.js: the disabled flags of its two buttons and of its
\* module selector, the selector's value, the Start click handlers awaiting
\* ensureLibraries() and visionEngine.init(), and the place of the handler
\* that has resumed after its await and is running to its end.
Page(startDisabled, stopDisabled, moduleDisabled, value, loading, initialising, resumed) ==
  [startDisabled |-> startDisabled, stopDisabled |-> stopDisabled,
   moduleDisabled |-> moduleDisabled, value |-> value, loading |-> loading,
   initialising |-> initialising, resumed |-> resumed]

\* The page once loaded, nothing clicked.
PageLoaded == Page(FALSE, TRUE, FALSE, "stance", 0, 0, "none")

\* ------------------------------------------------------------------ Init
\* The state after `new VisionEngine(...)` and `new TrainingModule(...)`.
Init ==
  /\ now = Epoch
  /\ activeModule = NoModule
  /\ sessionActive = FALSE
  /\ lastFeedbackTime = 0
  /\ drawBaselineY = Null
  /\ drawStartTime = Null
  /\ completedDrawTime = Null
  /\ logEl = <<>>
  /\ ccw_logs = <<>>
  /\ onPose = NoModule
  /\ detector = FALSE
  /\ running = FALSE
  /\ inferring = 0
  /\ scheduled = 0
  /\ obs = ObsIdle
  /\ hist = HistInit
  /\ page = PageLoaded

\* --------------------------------------------------------------- actions
\* Date.now() advances.
Tick(d) ==
  /\ now + d <= MaxClock
  /\ now' = now + d
  /\ obs' = ObsIdle
  /\ UNCHANGED <<page, trainingVars, detector, running, inferring, scheduled, hist>>

\* VisionEngine.init(): the detector is created.
VisionInit ==
  /\ ~detector
  /\ detector' = TRUE
  /\ obs' = ObsIdle
  /\ UNCHANGED <<page, now, trainingVars, running, inferring, scheduled, hist>>

StartedLine(module) == <<Msg("Started session.", module, Null)>>
EndedLine == <<Msg("Session ended.", NoModule, Null)>>

\* start(module) as it would be without its clearLog() call.
StartKeepsLog(module) ==
  /\ inferring + scheduled < MaxLoops
  /\ activeModule' = module
  /\ sessionActive' = TRUE
  /\ logEl' = Log(logEl, StartedLine(module))
  /\ drawBaselineY' = Null
  /\ drawStartTime' = Null
  /\ onPose' = module
  /\ IF detector
     THEN /\ running' = TRUE
          /\ inferring' = inferring + 1
     ELSE UNCHANGED <<running, inferring>>
  /\ obs' = Obs("start", sessionActive, Null, FALSE, NoModule, Null, FALSE, ~detector)
  /\ hist' = HistStart(module, StartedLine(module))
  /\ UNCHANGED <<now, lastFeedbackTime, completedDrawTime, ccw_logs, detector, scheduled>>

\* start(module) as it would be without its reset of the draw timer.
StartKeepsTimer(module) ==
  /\ inferring + scheduled < MaxLoops
  /\ activeModule' = module
  /\ sessionActive' = TRUE
  /\ logEl' = Log(<<>>, StartedLine(module))
  /\ onPose' = module
  /\ IF detector
     THEN /\ running' = TRUE
          /\ inferring' = inferring + 1
     ELSE UNCHANGED <<running, inferring>>
  /\ obs' = Obs("start", sessionActive, Null, FALSE, NoModule, Null, FALSE, ~detector)
  /\ hist' = HistStart(module, StartedLine(module))
  /\ UNCHANGED <<now, lastFeedbackTime, drawBaselineY, drawStartTime, completedDrawTime,
                 ccw_logs, detector, scheduled>>

\* TrainingModule.start(module), VisionEngine.start() included.  With no
\* detector VisionEngine.start throws after the controller's fields are set;
\* otherwise it sets running and runs the loop's first iteration up to its
\* await of estimatePoses.
Start(module) ==
  /\ inferring + scheduled < MaxLoops
  /\ activeModule' = module
  /\ sessionActive' = TRUE
  /\ logEl' = Log(<<>>, StartedLine(module))
  /\ drawBaselineY' = Null
  /\ drawStartTime' = Null
  /\ onPose' = module
  /\ IF detector
     THEN /\ running' = TRUE
          /\ inferring' = inferring + 1
     ELSE UNCHANGED <<running, inferring>>
  /\ obs' = Obs("start", sessionActive, Null, FALSE, NoModule, Null, FALSE, ~detector)
  /\ hist' = HistStart(module, StartedLine(module))
  /\ UNCHANGED <<now, lastFeedbackTime, completedDrawTime, ccw_logs, detector, scheduled>>

\* stop() as it would be without its `if (this.sessionActive)` test.
StopUnguarded ==
  /\ Len(ccw_logs) < MaxEntries
  /\ sessionActive' = FALSE
  /\ running' = FALSE
  /\ logEl' = Log(logEl, EndedLine)
  /\ ccw_logs' = Append(ccw_logs,
        [timestamp |-> now, module |-> activeModule, log |-> logEl'])
  /\ obs' = Obs("stop", sessionActive, Null, FALSE, NoModule, Null, TRUE, FALSE)
  /\ hist' = HistStop(EndedLine)
  /\ UNCHANGED <<now, activeModule, lastFeedbackTime, drawBaselineY, drawStartTime,
                 completedDrawTime, onPose, detector, inferring, scheduled>>

\* stop() as it would be if it stopped the pose source before its test.
StopStopsVisionFirst ==
  /\ sessionActive => Len(ccw_logs) < MaxEntries
  /\ running' = FALSE
  /\ IF sessionActive
     THEN /\ sessionActive' = FALSE
          /\ logEl' = Log(logEl, EndedLine)
          /\ ccw_logs' = Append(ccw_logs,
                [timestamp |-> now, module |-> activeModule, log |-> logEl'])
     ELSE UNCHANGED <<sessionActive, logEl, ccw_logs>>
  /\ obs' = Obs("stop", sessionActive, Null, FALSE, NoModule, Null, TRUE, FALSE)
  /\ hist' = HistStop(EndedLine)
  /\ UNCHANGED <<now, activeModule, lastFeedbackTime, drawBaselineY, drawStartTime,
                 completedDrawTime, onPose, detector, inferring, scheduled>>

\* TrainingModule.stop(), VisionEngine.stop() included.
Stop ==
  /\ sessionActive => Len(ccw_logs) < MaxEntries
  /\ IF sessionActive
     THEN /\ sessionActive' = FALSE
          /\ running' = FALSE
          /\ logEl' = Log(logEl, EndedLine)
          /\ ccw_logs' = Append(ccw_logs,
                [timestamp |-> now, module |-> activeModule, log |-> logEl'])
     ELSE UNCHANGED <<sessionActive, running, logEl, ccw_logs>>
  /\ obs' = Obs("stop", sessionActive, Null, FALSE, NoModule, Null, sessionActive, FALSE)
  /\ hist' = HistStop(EndedLine)
  /\ UNCHANGED <<now, activeModule, lastFeedbackTime, drawBaselineY, drawStartTime,
                 completedDrawTime, onPose, detector, inferring, scheduled>>

\* The closure as it would be if it fed the draw timer whatever the module.
CallbackFeedsAlways(module, metrics) ==
  LET d == handleDraw(drawBaselineY, drawStartTime, completedDrawTime, metrics, now)
      open == ThrottleOpen(now, lastFeedbackTime)
      drawTime == IF Truthy(d.completedDrawTime) THEN d.completedDrawTime ELSE Null
      messages == generateFeedback(metrics, module, drawTime)
  IN [drawBaselineY |-> d.drawBaselineY,
      drawStartTime |-> d.drawStartTime,
      completedDrawTime |->
        IF open /\ Truthy(d.completedDrawTime) THEN Null ELSE d.completedDrawTime,
      lastFeedbackTime |-> IF open THEN now ELSE lastFeedbackTime,
      logEl |-> IF open /\ Len(messages) > 0 THEN Log(logEl, messages) ELSE logEl,
      emitted |-> d.emitted,
      fbCalled |-> open,
      fbModule |-> IF open THEN module ELSE NoModule,
      fbDraw |-> IF open THEN drawTime ELSE Null,
      logged |-> open /\ Len(messages) > 0,
      line |-> messages]

\* The closure as it would be with its throttled block ahead of the draw timer.
CallbackThrottleFirst(module, metrics) ==
  LET open == ThrottleOpen(now, lastFeedbackTime)
      drawTime == IF Truthy(completedDrawTime) THEN completedDrawTime ELSE Null
      messages == generateFeedback(metrics, module, drawTime)
      pending == IF open /\ Truthy(completedDrawTime) THEN Null ELSE completedDrawTime
      d == IF module \in DrawModules
           THEN handleDraw(drawBaselineY, drawStartTime, pending, metrics, now)
           ELSE DrawState(drawBaselineY, drawStartTime, pending, Null)
  IN [drawBaselineY |-> d.drawBaselineY,
      drawStartTime |-> d.drawStartTime,
      completedDrawTime |-> d.completedDrawTime,
      lastFeedbackTime |-> IF open THEN now ELSE lastFeedbackTime,
      logEl |-> IF open /\ Len(messages) > 0 THEN Log(logEl, messages) ELSE logEl,
      emitted |-> d.emitted,
      fbCalled |-> open,
      fbModule |-> IF open THEN module ELSE NoModule,
      fbDraw |-> IF open THEN drawTime ELSE Null,
      logged |-> open /\ Len(messages) > 0,
      line |-> messages]

\* The closure start(module) registers as vision.onPose, called with a metrics
\* record: the next values of the controller's fields and what it called.
Callback(module, metrics) ==
  LET d == IF module \in DrawModules
           THEN handleDraw(drawBaselineY, drawStartTime, completedDrawTime, metrics, now)
           ELSE DrawState(drawBaselineY, drawStartTime, completedDrawTime, Null)
      open == ThrottleOpen(now, lastFeedbackTime)
      drawTime == IF Truthy(d.completedDrawTime) THEN d.completedDrawTime ELSE Null
      messages == generateFeedback(metrics, module, drawTime)
  IN [drawBaselineY |-> d.drawBaselineY,
      drawStartTime |-> d.drawStartTime,
      completedDrawTime |->
        IF open /\ Truthy(d.completedDrawTime) THEN Null ELSE d.completedDrawTime,
      lastFeedbackTime |-> IF open THEN now ELSE lastFeedbackTime,
      logEl |-> IF open /\ Len(messages) > 0 THEN Log(logEl, messages) ELSE logEl,
      emitted |-> d.emitted,
      fbCalled |-> open,
      fbModule |-> IF open THEN module ELSE NoModule,
      fbDraw |-> IF open THEN drawTime ELSE Null,
      logged |-> open /\ Len(messages) > 0,
      line |-> messages]

\* What a callback that returns at once leaves behind.
Skipped ==
  [drawBaselineY |-> drawBaselineY, drawStartTime |-> drawStartTime,
   completedDrawTime |-> completedDrawTime, lastFeedbackTime |-> lastFeedbackTime,
   logEl |-> logEl, emitted |-> Null, fbCalled |-> FALSE, fbModule |-> NoModule,
   fbDraw |-> Null, logged |-> FALSE, line |-> <<>>]

\* The closure as it would be without its `if (!this.sessionActive) return`.
OnPoseUnguarded(metrics) ==
  IF onPose = NoModule THEN Skipped ELSE Callback(onPose, metrics)

\* this.onPose(pose, metrics): the constructor's no-op, or the closure, which
\* returns at once unless the session is active.
OnPose(metrics) ==
  IF onPose = NoModule \/ ~sessionActive THEN Skipped ELSE Callback(onPose, metrics)

\* estimatePoses resolves with a pose: computeMetrics, drawPose, onPose, then
\* requestAnimationFrame(loop).
InferPose(metrics) ==
  /\ inferring > 0
  /\ LET r == OnPose(metrics)
     IN /\ drawBaselineY' = r.drawBaselineY
        /\ drawStartTime' = r.drawStartTime
        /\ completedDrawTime' = r.completedDrawTime
        /\ lastFeedbackTime' = r.lastFeedbackTime
        /\ logEl' = r.logEl
        /\ obs' = Obs("frame", sessionActive, r.emitted, r.fbCalled, r.fbModule,
                      r.fbDraw, FALSE, FALSE)
        /\ hist' = HistFrame(metrics, r.fbCalled, r.logged, r.line)
  /\ inferring' = inferring - 1
  /\ scheduled' = scheduled + 1
  /\ UNCHANGED <<page, now, activeModule, sessionActive, ccw_logs, onPose, detector, running>>

\* The loop as it would be if a frame without a pose were delivered to onPose
\* as a record of nulls.
InferEmptyDelivers == InferPose(NoMetrics)

\* estimatePoses resolves with no pose: nothing is called.
InferEmpty ==
  /\ inferring > 0
  /\ inferring' = inferring - 1
  /\ scheduled' = scheduled + 1
  /\ obs' = ObsIdle
  /\ UNCHANGED <<page, now, trainingVars, detector, running, hist>>

\* The loop as it would be if a rejected estimatePoses ended it.
InferThrowsEndsLoop ==
  /\ inferring > 0
  /\ inferring' = inferring - 1
  /\ obs' = Obs("error", sessionActive, Null, FALSE, NoModule, Null, FALSE, TRUE)
  /\ UNCHANGED <<page, now, trainingVars, detector, running, scheduled, hist>>

\* estimatePoses rejects: the loop's catch logs the error and goes on to
\* requestAnimationFrame(loop).
InferThrows ==
  /\ inferring > 0
  /\ inferring' = inferring - 1
  /\ scheduled' = scheduled + 1
  /\ obs' = Obs("error", sessionActive, Null, FALSE, NoModule, Null, FALSE, TRUE)
  /\ UNCHANGED <<page, now, trainingVars, detector, running, hist>>

\* loop() as it would be without its `if (!this.running) return`.
LoopIterateIgnoresRunning ==
  /\ scheduled > 0
  /\ scheduled' = scheduled - 1
  /\ inferring' = inferring + 1
  /\ obs' = ObsIdle
  /\ UNCHANGED <<page, now, trainingVars, detector, running, hist>>

\* A requestAnimationFrame callback runs loop(): it returns when the engine is
\* not running, else awaits the next estimatePoses.
LoopIterate ==
  /\ scheduled > 0
  /\ scheduled' = scheduled - 1
  /\ inferring' = IF running THEN inferring + 1 ELSE inferring
  /\ obs' = ObsIdle
  /\ UNCHANGED <<page, now, trainingVars, detector, running, hist>>

Next ==
  \/ \E d \in Deltas : Tick(d)
  \/ VisionInit
  \/ \E module \in Modules : Start(module) /\ UNCHANGED page
  \/ Stop /\ UNCHANGED page
  \/ \E metrics \in MetricsInputs : InferPose(metrics)
  \/ InferEmpty
  \/ InferThrows
  \/ LoopIterate

Spec == Init /\ [][Next]_vars


\* ---------------------------------------------------------------- claims
\* The step delivers the raise frame of the session's armed draw cycle: the
\* cycle hist follows is armed before the frame and unarmed after it.
CycleCompletes ==
  obs'.op = "frame" /\ Timed /\ hist.armTime # Null /\ hist'.armTime = Null

\* C1: in an active draw or full session each arm-then-raise cycle produces
\* exactly one completed-draw duration, on its raise frame, equal to the clock
\* at the raise frame minus the clock at the arming frame; no other frame and
\* no other operation produces a duration.
C1_OneDurationPerCycle ==
  [][IF CycleCompletes THEN obs'.emitted = now - hist.armTime
                        ELSE obs'.emitted = Null]_vars

\* A cycle has completed with a duration of a whole throttle period.
C1_Witness == obs.op = "frame" /\ obs.emitted = ThrottleMs

\* The frames that lack wristY or hipY.
DroppedInputs == {metrics \in MetricsInputs : Dropped(metrics)}

\* C2: while the timer is armed, a frame whose wristY or hipY is null leaves
\* drawBaselineY and drawStartTime unchanged and emits nothing, and the
\* duration emitted on the eventual raise frame of a cycle that saw such a
\* frame is measured from the clock at the original arming frame.
C2_DropoutKeepsTimer ==
  [][/\ (obs'.op = "frame" /\ drawStartTime # Null) =>
          \A metrics \in DroppedInputs :
            InferPose(metrics) =>
              /\ drawBaselineY' = drawBaselineY
              /\ drawStartTime' = drawStartTime
              /\ obs'.emitted = Null
     /\ (obs'.op = "frame" /\ hist.dropout /\ hist.armTime # Null
           /\ obs'.emitted # Null) =>
          obs'.emitted = now - hist.armTime]_vars

\* A cycle that saw a dropout frame while armed has completed, a throttle period
\* or more after it was armed.
C2_Witness ==
  obs.op = "frame" /\ obs.emitted # Null /\ obs.emitted >= ThrottleMs /\ hist.dropout

\* C3: within one session any two consecutive generateFeedback calls are at
\* least 1000 ms apart.
C3_FeedbackRateLimited ==
  [][(obs'.op = "frame" /\ obs'.fbCalled /\ hist.active /\ hist.fbTime # Null) =>
       now' - hist.fbTime >= ThrottleMs]_vars

\* A session has had its second generateFeedback call.
C3_Witness ==
  obs.op = "frame" /\ obs.fbCalled /\ hist.active /\ hist.fbCalls >= 2


\* The draw duration pending when the frame callback reaches its throttle
\* test: the one this frame's handleDraw produced, else the one left pending.
PendingAtThrottle == IF obs'.emitted # Null THEN obs'.emitted ELSE completedDrawTime

\* C4: for every record delivered while the session is active, generateFeedback
\* is called with the current module and the pending draw duration, and
\* lastFeedbackTime becomes the record's time, if 1000 ms or more have elapsed
\* since lastFeedbackTime; otherwise it is not called and lastFeedbackTime is
\* unchanged.
C4_ThrottleAtLeast1000 ==
  [][\A metrics \in MetricsInputs :
       (InferPose(metrics) /\ sessionActive) =>
         IF now - lastFeedbackTime >= ThrottleMs
         THEN /\ obs'.fbCalled
              /\ obs'.fbModule = activeModule
              /\ obs'.fbDraw = PendingAtThrottle
              /\ lastFeedbackTime' = now
         ELSE /\ ~obs'.fbCalled
              /\ lastFeedbackTime' = lastFeedbackTime]_vars

\* C5: stop() on an idle controller changes nothing: no log entry, no call of
\* the pose source's stop, no error, and session state, draw-timer state and
\* transcript as they were.
C5_IdleStopNoOp ==
  [][(Stop /\ ~sessionActive) =>
       /\ UNCHANGED <<trainingVars, detector, running, inferring, scheduled>>
       /\ ~obs'.visionStop
       /\ ~obs'.threw]_vars

\* stop() has just been called on an idle controller whose store holds an entry.
C5_Witness == obs.op = "stop" /\ ~obs.wasActive /\ Len(ccw_logs) > 0

C7_EntryOfSession ==
  (obs.op = "stop" /\ obs.wasActive) =>
     /\ Len(ccw_logs) > 0
     /\ ccw_logs[Len(ccw_logs)].module = hist.module
     /\ ccw_logs[Len(ccw_logs)].log = hist.lines

\* A session that logged feedback has just been stopped.
C7_Witness == obs.op = "stop" /\ obs.wasActive /\ Len(hist.lines) >= 3

\* C8: a start() made while a session is active is idempotent or rejected: the
\* active module, the transcript and the draw-timer state stay as they were
\* and no further detection loop is started.
C8_StartWhileActiveRejected ==
  [][\A module \in Modules :
       (Start(module) /\ sessionActive) =>
         /\ activeModule' = activeModule
         /\ logEl' = logEl
         /\ drawBaselineY' = drawBaselineY
         /\ drawStartTime' = drawStartTime
         /\ inferring' + scheduled' = inferring + scheduled]_vars

\* C9: every start() sets lastFeedbackTime to a value more than 1000 ms in the
\* past, so the first record delivered in every session triggers a
\* generateFeedback call: no record is delivered to a session that has had no
\* generateFeedback call without causing one.
C9_FirstFrameGetsFeedback ==
  [][/\ \A module \in Modules :
          Start(module) => now - lastFeedbackTime' > ThrottleMs
     /\ \A metrics \in MetricsInputs :
          (InferPose(metrics) /\ sessionActive /\ hist.active /\ hist.fbTime = Null) =>
             obs'.fbCalled]_vars

\* C10: the draw timer's two fields are null right after a completing raise
\* frame and right after stop().
C10_ResetOnCompleteAndStop ==
  ((obs.op = "frame" /\ obs.emitted # Null) \/ obs.op = "stop") =>
     (drawBaselineY = Null /\ drawStartTime = Null)

\* C10 as amended: the two fields are null right after a completing raise frame
\* and right after start(); stop() leaves them as they were.
C10_ResetOnCompleteAndStart ==
  /\ [](((obs.op = "frame" /\ obs.emitted # Null) \/ obs.op = "start") =>
          (drawBaselineY = Null /\ drawStartTime = Null))
  /\ [][Stop => UNCHANGED <<drawBaselineY, drawStartTime>>]_vars

\* stop() has just been called on an active session whose timer was armed.
C10_Witness == obs.op = "stop" /\ obs.wasActive /\ drawStartTime # Null


\* The step delivers a frame to the draw timer: the session is active and its
\* module is draw or full.
TimerFed == obs'.op = "frame" /\ sessionActive /\ activeModule \in DrawModules

C12_RaisesOnlyPastMargin ==
  [][(TimerFed /\ drawBaselineY # Null) =>
       \A metrics \in MetricsInputs \ DroppedInputs :
         InferPose(metrics) =>
           IF metrics.wristY < metrics.hipY - RaiseMargin
           THEN /\ obs'.emitted = now - drawStartTime
                /\ drawBaselineY' = Null /\ drawStartTime' = Null
           ELSE /\ obs'.emitted = Null
                /\ drawBaselineY' = drawBaselineY /\ drawStartTime' = drawStartTime]_vars

\* A raise frame has just completed a draw that lasted longer than the throttle
\* period.
C12_Witness ==
  /\ obs.op = "frame" /\ obs.emitted = ThrottleMs + 1
  /\ drawBaselineY = Null /\ drawStartTime = Null

\* C13: a completed duration d >= 0 stays pending until the next frame on which
\* generateFeedback is called, a later completion replacing it; that call is
\* passed the pending duration, and the pending value is then cleared.
C13_PendingReportedOnce ==
  [][obs'.op = "frame" =>
       IF obs'.fbCalled
       THEN obs'.fbDraw = PendingAtThrottle /\ completedDrawTime' = Null
       ELSE completedDrawTime' = PendingAtThrottle]_vars


\* ------------------------------------------------ generateFeedback alone
\* generateFeedback reads nothing but its arguments.  FeedbackSpec draws the
\* arguments in its initial state and applies the function once; the call and
\* its result are held in obs, every other variable is as constructed.
\* Stance ratios lie on and next to the two thresholds, draw times on and next
\* to 2500 ms; no draw time ends in 5 ms (see ToFixed2).
StanceRatios == {Null, 99, 100, 150, 200, 201}
GripValues == {"null", "true", "false"}
DrawTimes == {Null, 0, 2494, 2500, 2504, 2506}

FeedbackCall(op, metrics, module, drawTime, messages) ==
  [op |-> op, metrics |-> metrics, module |-> module, drawTime |-> drawTime,
   messages |-> messages]

FeedbackInit ==
  /\ now = Epoch
  /\ activeModule = NoModule
  /\ sessionActive = FALSE
  /\ lastFeedbackTime = 0
  /\ drawBaselineY = Null
  /\ drawStartTime = Null
  /\ completedDrawTime = Null
  /\ logEl = <<>>
  /\ ccw_logs = <<>>
  /\ onPose = NoModule
  /\ detector = FALSE
  /\ running = FALSE
  /\ inferring = 0
  /\ scheduled = 0
  /\ hist = HistInit
  /\ page = PageLoaded
  /\ \E sr \in StanceRatios, grip \in GripValues, module \in Modules,
        drawTime \in DrawTimes :
       obs = FeedbackCall("arguments", Metrics(sr, grip, Null, Null), module,
                          drawTime, <<>>)

\* The call generateFeedback(metrics, module, drawTime) returns.
FeedbackReturn ==
  /\ obs.op = "arguments"
  /\ obs' = FeedbackCall("generateFeedback", obs.metrics, obs.module, obs.drawTime,
                         generateFeedback(obs.metrics, obs.module, obs.drawTime))
  /\ UNCHANGED <<page, now, trainingVars, detector, running, inferring, scheduled, hist>>

FeedbackNext == FeedbackReturn

FeedbackSpec == FeedbackInit /\ [][FeedbackNext]_vars

\* The messages of a returned list that a given rule pushes.
StanceMessages(messages) ==
  SelectSeq(messages, LAMBDA m : m.text \in {StanceNarrow, StanceWide, StanceGood})
GripMessages(messages) ==
  SelectSeq(messages, LAMBDA m : m.text \in {GripOneHand, GripGood})
DrawMessages(messages) ==
  SelectSeq(messages, LAMBDA m : m.text \in {DrawSlow, DrawGood})

Returned == obs.op = "generateFeedback"

\* C14: the stance rule gives exactly one message when the module is stance or
\* full and stanceRatio is not null, and none otherwise: too narrow iff the
\* ratio is below 1.0, too wide iff it is above 2.0, the affirmation on
\* [1.0, 2.0].
C14_StanceRule ==
  Returned =>
    LET ratio == obs.metrics.stanceRatio
        stance == StanceMessages(obs.messages)
    IN IF obs.module \in {"stance", "full"} /\ ratio # Null
       THEN /\ Len(stance) = 1
            /\ stance[1].text = StanceNarrow <=> ratio < StanceMin
            /\ stance[1].text = StanceWide <=> ratio > StanceMax
            /\ (StanceMin <= ratio /\ ratio <= StanceMax) => stance[1].text = StanceGood
       ELSE Len(stance) = 0

\* A ratio of exactly 2.0 has been affirmed in a full session.
C14_Witness ==
  /\ Returned /\ obs.module = "full" /\ obs.metrics.stanceRatio = StanceMax
  /\ StanceMessages(obs.messages) = <<Msg(StanceGood, NoModule, Null)>>

\* A duration in milliseconds to the nearest hundredth of a second (of the two
\* nearest when it ends in 5 ms, which no draw time drawn here does).
NearestCenti(ms) ==
  CHOOSE n \in 0..(ms \div 10 + 1) : ms - 10 * n <= 5 /\ 10 * n - ms <= 5

\* C15: the draw rule gives exactly one message when the module is draw or full
\* and drawTime is not null, and none otherwise: the "shave it down" message
\* iff drawTime > 2500 ms, the affirmation otherwise, showing the duration
\* rounded to hundredths of a second.
C15_DrawRule ==
  Returned =>
    LET draw == DrawMessages(obs.messages)
    IN IF obs.module \in DrawModules /\ obs.drawTime # Null
       THEN /\ Len(draw) = 1
            /\ draw[1].text = DrawSlow <=> obs.drawTime > 10 * SlowDrawCentis
            /\ draw[1].text = DrawGood <=> obs.drawTime <= 10 * SlowDrawCentis
            /\ draw[1].secs = NearestCenti(obs.drawTime)
       ELSE Len(draw) = 0

\* C16: the grip rule gives exactly one message when the module is grip or full
\* and gripTwoHand is not null ("use both hands" for false, the affirmation for
\* true), and none when gripTwoHand is null or the module is stance or draw.
C16_GripRule ==
  Returned =>
    LET grip == GripMessages(obs.messages)
    IN IF obs.module \in {"grip", "full"} /\ obs.metrics.gripTwoHand # "null"
       THEN /\ Len(grip) = 1
            /\ grip[1].text = GripOneHand <=> obs.metrics.gripTwoHand = "false"
            /\ grip[1].text = GripGood <=> obs.metrics.gripTwoHand = "true"
       ELSE Len(grip) = 0

\* A one-handed grip has been reported in a grip session.
C16_Witness ==
  /\ Returned /\ obs.module = "grip" /\ obs.metrics.gripTwoHand = "false"
  /\ obs.messages = <<Msg(GripOneHand, NoModule, Null)>>

\* The number of rules that apply to a call.
ApplicableRules ==
  (IF obs.module \in {"stance", "full"} /\ obs.metrics.stanceRatio # Null THEN 1 ELSE 0)
  + (IF obs.module \in {"grip", "full"} /\ obs.metrics.gripTwoHand # "null" THEN 1 ELSE 0)
  + (IF obs.module \in DrawModules /\ obs.drawTime # Null THEN 1 ELSE 0)

\* C17: the returned list is the stance message, then the grip message, then
\* the draw message, with nothing else in it; its length is the number of
\* rules that apply; the modules stance, grip and draw give at most one
\* message; and the list is a function of the arguments alone.
C17_FixedOrder ==
  Returned =>
    /\ obs.messages = StanceMessages(obs.messages) \o GripMessages(obs.messages)
                        \o DrawMessages(obs.messages)
    /\ Len(obs.messages) = ApplicableRules
    /\ obs.module # "full" => Len(obs.messages) <= 1
    /\ obs.messages = generateFeedback(obs.metrics, obs.module, obs.drawTime)

\* A full session's call has returned all three messages.
C17_Witness ==
  /\ Returned /\ obs.module = "full" /\ Len(obs.messages) = 3
  /\ obs.messages[1].text = StanceWide /\ obs.messages[3].text = DrawGood


\* -------------------------------------------------- computeMetrics alone
\* A pose is the list of keypoints of detector.estimatePoses: name, pixel
\* coordinates and a confidence score in hundredths.  Normalised coordinates
\* and distances are kept in hundredths, like wristY and hipY; the poses drawn
\* below make every division and every square root exact.
ScoreMin == 30
GripPercent == 35
CanvasWidth == 200
CanvasHeight == 100

Keypoint(name, x, y, score) == [name |-> name, x |-> x, y |-> y, score |-> score]
Point(x, y) == [x |-> x, y |-> y]

\* keypoints[name] of a landmark that did not survive: undefined.
NoPoint == Point(Null, Null)

\* Math.sqrt, on the squares the poses produce.
Sqrt(n) == CHOOSE r \in 0..150 : r * r <= n /\ (r + 1) * (r + 1) > n

\* distance(a, b) of utils.js.
distance(a, b) ==
  LET dx == a.x - b.x
      dy == a.y - b.y
  IN Sqrt(dx * dx + dy * dy)

\* kp.x / this.canvasEl.width and kp.y / this.canvasEl.height.
Normalise(v, size) == (100 * v) \div size

\* The filter as it would be if a score of exactly 0.3 survived.
SurvivesAtThreshold(kp) == kp.score >= ScoreMin

\* if (kp.score > 0.3)
Survives(kp) == kp.score > ScoreMin

\* keypoints[name] as it would be if a later keypoint of the same name that
\* fails the filter removed the entry.
LookupLastNamed(pose, name) ==
  LET named == {i \in 1..Len(pose) : pose[i].name = name}
  IN IF named = {}
     THEN NoPoint
     ELSE LET last == CHOOSE i \in named : \A j \in named : j <= i
          IN IF Survives(pose[last])
             THEN Point(Normalise(pose[last].x, CanvasWidth),
                        Normalise(pose[last].y, CanvasHeight))
             ELSE NoPoint

\* keypoints[name] after the forEach: the last surviving keypoint of that
\* name, normalised.
Lookup(pose, name) ==
  LET found == {i \in 1..Len(pose) : pose[i].name = name /\ Survives(pose[i])}
  IN IF found = {}
     THEN NoPoint
     ELSE LET last == CHOOSE i \in found : \A j \in found : j <= i
          IN Point(Normalise(pose[last].x, CanvasWidth),
                   Normalise(pose[last].y, CanvasHeight))

\* The grip test as it would be if wrists exactly 0.35 shoulder widths apart
\* counted as together.
GripCloseAtLimit(wristDist, shoulderDist) == 100 * wristDist <= GripPercent * shoulderDist

\* wristDist < shoulderDist * 0.35
GripClose(wristDist, shoulderDist) == 100 * wristDist < GripPercent * shoulderDist

\* The pose as computeMetrics would leave it if it normalised the keypoints in
\* place.
PoseNormalisedInPlace(pose) ==
  [i \in 1..Len(pose) |->
     Keypoint(pose[i].name, Normalise(pose[i].x, CanvasWidth),
              Normalise(pose[i].y, CanvasHeight), pose[i].score)]

\* The pose as computeMetrics leaves it: the forEach reads each keypoint and
\* writes only the local `keypoints` object.
PoseAfter(pose) == pose

\* VisionEngine.computeMetrics(pose)
computeMetrics(pose) ==
  LET leftAnkle == Lookup(pose, "left_ankle")
      rightAnkle == Lookup(pose, "right_ankle")
      leftShoulder == Lookup(pose, "left_shoulder")
      rightShoulder == Lookup(pose, "right_shoulder")
      leftWrist == Lookup(pose, "left_wrist")
      rightWrist == Lookup(pose, "right_wrist")
      rightHip == Lookup(pose, "right_hip")
      stanceRatio ==
        IF leftAnkle # NoPoint /\ rightAnkle # NoPoint
           /\ leftShoulder # NoPoint /\ rightShoulder # NoPoint
        THEN IF distance(leftShoulder, rightShoulder) > 0
             THEN (100 * distance(leftAnkle, rightAnkle))
                    \div distance(leftShoulder, rightShoulder)
             ELSE Null
        ELSE Null
      gripTwoHand ==
        IF leftWrist # NoPoint /\ rightWrist # NoPoint
           /\ leftShoulder # NoPoint /\ rightShoulder # NoPoint
        THEN IF distance(leftShoulder, rightShoulder) > 0
             THEN IF GripClose(distance(leftWrist, rightWrist),
                               distance(leftShoulder, rightShoulder))
                  THEN "true" ELSE "false"
             ELSE "null"
        ELSE "null"
      wristY == IF rightWrist # NoPoint THEN rightWrist.y ELSE Null
      hipY == IF rightHip # NoPoint THEN rightHip.y ELSE Null
  IN Metrics(stanceRatio, gripTwoHand, wristY, hipY)

\* MetricsSpec draws a pose in its initial state and applies computeMetrics
\* once; the call and its result are held in obs, every other variable is as
\* constructed.  Each of the seven landmarks computeMetrics reads is left out
\* of the pose (Null) or given a score of exactly 0.3 or just above it.  The
\* left shoulder is at (0.3, 0.3) and the right shoulder on it, 0.4 to its
\* right or 0.5 away on a diagonal; the left wrist is at (0.43, 0.5) and the
\* right wrist 0.13, 0.14 or 0.15 to its right, 0.14 being 0.35 x 0.4; the
\* ankles are 0.6 apart; the right hip is at (0.55, 0.55).  The pose may end
\* with a second right_wrist keypoint, at (0.83, 0.8), 0.5 from the left wrist.
KeypointScores == {Null, 30, 31}
RightShoulders == {Point(60, 30), Point(140, 30), Point(120, 70)}
RightWrists == {Point(112, 50), Point(114, 50), Point(116, 50)}

Landmark(name, x, y, score) ==
  IF score = Null THEN <<>> ELSE <<Keypoint(name, x, y, score)>>

PoseInputs ==
  { Landmark("left_shoulder", 60, 30, sc[1])
      \o Landmark("right_shoulder", rs.x, rs.y, sc[2])
      \o Landmark("left_wrist", 86, 50, sc[3])
      \o Landmark("right_wrist", rw.x, rw.y, sc[4])
      \o Landmark("right_hip", 110, 55, sc[5])
      \o Landmark("left_ankle", 40, 90, sc[6])
      \o Landmark("right_ankle", 160, 90, sc[7])
      \o Landmark("right_wrist", 166, 80, sc[8]) :
    sc \in [1..8 -> KeypointScores], rs \in RightShoulders, rw \in RightWrists }

MetricsCall(op, pose, metrics) == [op |-> op, pose |-> pose, metrics |-> metrics]

MetricsInit ==
  /\ now = Epoch
  /\ activeModule = NoModule
  /\ sessionActive = FALSE
  /\ lastFeedbackTime = 0
  /\ drawBaselineY = Null
  /\ drawStartTime = Null
  /\ completedDrawTime = Null
  /\ logEl = <<>>
  /\ ccw_logs = <<>>
  /\ onPose = NoModule
  /\ detector = FALSE
  /\ running = FALSE
  /\ inferring = 0
  /\ scheduled = 0
  /\ hist = HistInit
  /\ page = PageLoaded
  /\ \E pose \in PoseInputs : obs = MetricsCall("pose", pose, NoMetrics)

\* The call computeMetrics(pose) returns.
MetricsReturn ==
  /\ obs.op = "pose"
  /\ obs' = MetricsCall("computeMetrics", PoseAfter(obs.pose), computeMetrics(obs.pose))
  /\ UNCHANGED <<page, now, trainingVars, detector, running, inferring, scheduled, hist>>

\* A second call of computeMetrics on the same pose object returns.
MetricsAgain ==
  /\ obs.op = "computeMetrics"
  /\ obs' = MetricsCall("again", PoseAfter(obs.pose), computeMetrics(obs.pose))
  /\ UNCHANGED <<page, now, trainingVars, detector, running, inferring, scheduled, hist>>

MetricsNext == MetricsReturn \/ MetricsAgain

MetricsSpec == MetricsInit /\ [][MetricsNext]_vars

MetricsReturned == obs.op \in {"computeMetrics", "again"}

\* The pose holds a keypoint of that name with a score above 0.3.
Kept(pose, name) ==
  \E i \in 1..Len(pose) : pose[i].name = name /\ pose[i].score > ScoreMin

\* The distance between two landmarks of the pose that are both kept.
Apart(pose, a, b) == distance(Lookup(pose, a), Lookup(pose, b))

\* C18: stanceRatio is null when one of left_ankle, right_ankle, left_shoulder,
\* right_shoulder is missing or has a score of 0.3 or less, and when the
\* shoulder distance is zero; otherwise it is the ankle distance divided by
\* the shoulder distance.
C18_StanceRatio ==
  MetricsReturned =>
    LET pose == obs.pose
        ratio == obs.metrics.stanceRatio
    IN IF \E name \in {"left_ankle", "right_ankle", "left_shoulder", "right_shoulder"} :
            ~Kept(pose, name)
       THEN ratio = Null
       ELSE IF Apart(pose, "left_shoulder", "right_shoulder") = 0
            THEN ratio = Null
            ELSE /\ ratio # Null
                 /\ ratio * Apart(pose, "left_shoulder", "right_shoulder")
                      = 100 * Apart(pose, "left_ankle", "right_ankle")

\* Ankles 0.6 apart and shoulders 0.4 apart have given a ratio of 1.5.
C18_Witness ==
  /\ MetricsReturned /\ obs.metrics.stanceRatio = 150
  /\ Apart(obs.pose, "left_ankle", "right_ankle") = 60
  /\ Apart(obs.pose, "left_shoulder", "right_shoulder") = 40

\* C19: gripTwoHand is true iff both wrists and both shoulders are kept, the
\* shoulder distance is positive and the wrist distance is less than 0.35
\* times the shoulder distance; false when they are kept, the shoulder
\* distance is positive and the wrists are that far apart or farther; null
\* when one of the four is missing or the shoulder distance is zero.
C19_GripTwoHand ==
  MetricsReturned =>
    LET pose == obs.pose
        grip == obs.metrics.gripTwoHand
    IN IF \E name \in {"left_wrist", "right_wrist", "left_shoulder", "right_shoulder"} :
            ~Kept(pose, name)
       THEN grip = "null"
       ELSE IF Apart(pose, "left_shoulder", "right_shoulder") = 0
            THEN grip = "null"
            ELSE IF 100 * Apart(pose, "left_wrist", "right_wrist")
                      < GripPercent * Apart(pose, "left_shoulder", "right_shoulder")
                 THEN grip = "true"
                 ELSE grip = "false"

\* Wrists exactly 0.35 shoulder widths apart have been reported as not together.
C19_Witness ==
  /\ MetricsReturned /\ obs.metrics.gripTwoHand = "false"
  /\ 100 * Apart(obs.pose, "left_wrist", "right_wrist")
       = GripPercent * Apart(obs.pose, "left_shoulder", "right_shoulder")


\* C20: a frame for which estimatePoses gives no pose, or throws, is skipped:
\* generateFeedback is not called and no duration is emitted, and the
\* transcript, lastFeedbackTime, the pending draw duration and the draw timer
\* are as they were.
C20_NoPoseSkipsFrame ==
  [][(InferEmpty \/ InferThrows) =>
       /\ UNCHANGED <<logEl, lastFeedbackTime, completedDrawTime, drawBaselineY,
                      drawStartTime>>
       /\ ~obs'.fbCalled
       /\ obs'.emitted = Null]_vars

\* A loop has finished an inference and waits for its next animation frame in a
\* session that has been active since the first start(), with lastFeedbackTime
\* still as constructed: a delivered record would have called generateFeedback
\* and set it, so that inference gave no pose.
C20_Witness ==
  /\ sessionActive /\ hist.stops = 0 /\ scheduled > 0 /\ inferring = 0
  /\ lastFeedbackTime = 0 /\ obs.op = "idle"


\* C21: a frame whose callback runs after stop() has returned and before the
\* next start() appends nothing to the transcript, does not call
\* generateFeedback and changes neither the draw timer, the pending draw
\* duration nor lastFeedbackTime.
C21_FrameAfterStopIgnored ==
  [][(obs'.op = "frame" /\ ~hist.active /\ hist.stops > 0) =>
       /\ UNCHANGED <<logEl, lastFeedbackTime, completedDrawTime, drawBaselineY,
                      drawStartTime>>
       /\ ~obs'.fbCalled
       /\ obs'.emitted = Null]_vars

\* A frame has been delivered after stop(), with the timer left armed and more
\* than the throttle period since the last feedback.
C21_Witness ==
  /\ obs.op = "frame" /\ ~hist.active /\ hist.stops > 0
  /\ drawStartTime # Null /\ now - lastFeedbackTime > ThrottleMs


\* The session is a stance or grip session.
Untimed == hist.active /\ hist.module \in Modules \ DrawModules

\* No line of a transcript holds a draw-time message.
NoDrawMessage(lines) ==
  \A i \in 1..Len(lines) : DrawMessages(lines[i]) = <<>>

\* C22: throughout a stance or grip session both draw-timer fields are null
\* and the transcript holds no draw-time message, and no frame of the session
\* emits a duration or stashes one as pending.
C22_TimerFedOnlyInDrawModules ==
  /\ [](Untimed => /\ drawBaselineY = Null /\ drawStartTime = Null
                   /\ NoDrawMessage(logEl) /\ NoDrawMessage(hist.lines))
  /\ [][(Untimed /\ obs'.op = "frame") =>
          /\ obs'.emitted = Null
          /\ completedDrawTime' \in {completedDrawTime, Null}]_vars

\* A grip session has had frames delivered a throttle period apart.
C22_Witness ==
  obs.op = "frame" /\ hist.active /\ hist.module = "grip" /\ hist.fbCalls >= 2


\* C23: start(module) on an idle controller makes it active with that module,
\* leaves a transcript that holds only the new session's first line and sets
\* both draw-timer fields to null; a duration emitted in a session is measured
\* from an arming frame of that session.
C23_StartResetsSession ==
  [][/\ (obs'.op = "start" /\ ~sessionActive) =>
          \A module \in Modules :
            Start(module) =>
              /\ sessionActive' /\ activeModule' = module
              /\ logEl' = <<StartedLine(module)>>
              /\ drawBaselineY' = Null /\ drawStartTime' = Null
     /\ (obs'.op = "frame" /\ obs'.emitted # Null) =>
          /\ hist.active /\ hist.armTime # Null
          /\ obs'.emitted = now - hist.armTime]_vars

\* A draw has been timed in a session that followed a stopped one.
C23_Witness ==
  /\ obs.op = "frame" /\ obs.emitted # Null /\ obs.emitted >= ThrottleMs
  /\ hist.active /\ hist.stops > 0


KeptAt(pose, name) ==
  {i \in 1..Len(pose) : pose[i].name = name /\ pose[i].score > ScoreMin}

\* The normalised point of the last of them.
LastKept(pose, name) ==
  LET last == CHOOSE i \in KeptAt(pose, name) : \A j \in KeptAt(pose, name) : j <= i
  IN Point(Normalise(pose[last].x, CanvasWidth), Normalise(pose[last].y, CanvasHeight))

\* C25: when a pose holds several keypoints of one name, the last of them with
\* a score above 0.3 supplies the coordinates, and a later one with a score of
\* 0.3 or less neither replaces nor removes it: wristY is the y of the last
\* kept right_wrist (null when none is kept), and gripTwoHand is computed from
\* that keypoint.
C25_LastKeptWins ==
  MetricsReturned =>
    LET pose == obs.pose
    IN /\ obs.metrics.wristY =
            (IF KeptAt(pose, "right_wrist") = {} THEN Null
             ELSE LastKept(pose, "right_wrist").y)
       /\ (\A name \in {"left_wrist", "right_wrist", "left_shoulder", "right_shoulder"} :
              KeptAt(pose, name) # {}) =>
            LET wristDist == distance(LastKept(pose, "left_wrist"),
                                      LastKept(pose, "right_wrist"))
                shoulderDist == distance(LastKept(pose, "left_shoulder"),
                                         LastKept(pose, "right_shoulder"))
            IN shoulderDist > 0 =>
                 (obs.metrics.gripTwoHand = "true"
                    <=> 100 * wristDist < GripPercent * shoulderDist)

\* A pose whose first right_wrist is kept and whose second has a score of 0.3
\* has given the first one's y.
C25_Witness ==
  /\ MetricsReturned /\ obs.metrics.wristY = 50 /\ obs.metrics.gripTwoHand = "true"
  /\ obs.pose[Len(obs.pose)] = Keypoint("right_wrist", 166, 80, ScoreMin)


\* ------------------------------------------------------ handleDraw alone
\* DrawSpec draws a timer (unarmed, or armed a throttle period ago) and a
\* record in its initial state and applies handleDraw once; the call and its
\* result are held in obs, every other variable is as constructed.  The wrist
\* takes every hundredth from 0.30 to 0.60, or is missing, against a hip at
\* 0.40 or 0.50.
WristYs == {Null} \cup (30..60)
HipYs == {40, 50}
BaselineYs == {Null, 56}

DrawCall(op, b, s, metrics, t, result) ==
  [op |-> op, b |-> b, s |-> s, metrics |-> metrics, t |-> t, result |-> result]

DrawInit ==
  /\ now = Epoch
  /\ activeModule = NoModule
  /\ sessionActive = FALSE
  /\ lastFeedbackTime = 0
  /\ drawBaselineY = Null
  /\ drawStartTime = Null
  /\ completedDrawTime = Null
  /\ logEl = <<>>
  /\ ccw_logs = <<>>
  /\ onPose = NoModule
  /\ detector = FALSE
  /\ running = FALSE
  /\ inferring = 0
  /\ scheduled = 0
  /\ hist = HistInit
  /\ page = PageLoaded
  /\ \E b \in BaselineYs, wy \in WristYs, hy \in HipYs :
       obs = DrawCall("arguments", b, IF b = Null THEN Null ELSE Epoch,
                      Metrics(Null, "null", wy, hy), Epoch + ThrottleMs,
                      DrawState(Null, Null, Null, Null))

\* The call handleDraw(metrics) returns.
DrawReturn ==
  /\ obs.op = "arguments"
  /\ obs' = DrawCall("handleDraw", obs.b, obs.s, obs.metrics, obs.t,
                     handleDraw(obs.b, obs.s, Null, obs.metrics, obs.t))
  /\ UNCHANGED <<page, now, trainingVars, detector, running, inferring, scheduled, hist>>

DrawNext == DrawReturn

DrawSpec == DrawInit /\ [][DrawNext]_vars

DrawReturned == obs.op = "handleDraw"

\* The wrist is present and within [hipY - 0.15, hipY + 0.05].
InBand(metrics) ==
  /\ metrics.wristY # Null
  /\ metrics.hipY - RaiseMargin <= metrics.wristY
  /\ metrics.wristY <= metrics.hipY + ArmMargin

\* C26: no record satisfies both the arming and the completing condition, no
\* call of handleDraw both arms and completes, and a wrist within
\* [hipY - 0.15, hipY + 0.05] neither arms an unarmed timer nor completes an
\* armed one and emits no duration.
C26_HysteresisBand ==
  DrawReturned =>
    LET m == obs.metrics
        r == obs.result
    IN /\ ~(m.wristY # Null /\ m.wristY > m.hipY + ArmMargin
                             /\ m.wristY < m.hipY - RaiseMargin)
       /\ obs.b = Null => r.emitted = Null
       /\ r.emitted # Null => r.drawBaselineY = Null /\ r.drawStartTime = Null
       /\ InBand(m) => /\ r.drawBaselineY = obs.b
                       /\ r.drawStartTime = obs.s
                       /\ r.emitted = Null
                       /\ r.completedDrawTime = Null

\* An armed timer has been fed a wrist level with the hip and is still armed.
C26_Witness ==
  /\ DrawReturned /\ obs.b # Null /\ obs.metrics.wristY = obs.metrics.hipY
  /\ obs.result.drawBaselineY = obs.b /\ obs.result.emitted = Null


IdleStart(module) ==
  /\ ~sessionActive
  /\ Start(module)

AlternatingNext ==
  \/ \E d \in Deltas : Tick(d)
  \/ VisionInit
  \/ \E module \in Modules : IdleStart(module) /\ UNCHANGED page
  \/ Stop /\ UNCHANGED page
  \/ \E metrics \in MetricsInputs : InferPose(metrics)
  \/ InferEmpty
  \/ InferThrows
  \/ LoopIterate

AlternatingSpec == Init /\ [][AlternatingNext]_vars

\* The loops that are live: awaiting estimatePoses, or queued with
\* requestAnimationFrame.
LiveLoops == inferring + scheduled

\* C28: when every start() is made while idle, at most one detection loop is
\* live at any time.
C28_OneLoopLive == LiveLoops <= 1


\* ------------------------------------------------------------------ the page
\* PageSpec is the controller driven by the page of main.js: clicks on its two
\* buttons, changes of its selector, and the settling of what a Start click
\* awaits.  A click handler that has resumed runs to its end before any other
\* event is handled.
MaxSetups == 2
MaxLines == 4

PageLine(text) == <<Msg(text, NoModule, Null)>>
LoadedLine == PageLine("Libraries loaded. Tap Start Session to begin.")
InitialisingLine == PageLine("Initializing camera & pose model.")
ReadyLine == PageLine("Ready! Select a module and begin.")
SessionStartedLine == PageLine("Session started.")
SetupErrorLine == PageLine("Setup error")

PageInit ==
  /\ now = Epoch
  /\ activeModule = NoModule
  /\ sessionActive = FALSE
  /\ lastFeedbackTime = 0
  /\ drawBaselineY = Null
  /\ drawStartTime = Null
  /\ completedDrawTime = Null
  /\ logEl = <<LoadedLine>>
  /\ ccw_logs = <<>>
  /\ onPose = NoModule
  /\ detector = FALSE
  /\ running = FALSE
  /\ inferring = 0
  /\ scheduled = 0
  /\ obs = ObsIdle
  /\ hist = HistInit
  /\ \E stopDisabled \in BOOLEAN, value \in Modules :
       page = Page(FALSE, stopDisabled, FALSE, value, 0, 0, "none")

\* No click handler is part-way through its run.
Quiet == page.resumed = "none"

\* The three assignments that re-enable Start and the selector and disable Stop.
ButtonsIdle(p) ==
  [p EXCEPT !.startDisabled = FALSE, !.stopDisabled = TRUE, !.moduleDisabled = FALSE]

\* The user picks another module in the selector.
SelectModule(module) ==
  /\ Quiet
  /\ ~page.moduleDisabled
  /\ page.value # module
  /\ page' = [page EXCEPT !.value = module]
  /\ obs' = ObsIdle
  /\ UNCHANGED <<now, trainingVars, detector, running, inferring, scheduled, hist>>

\* A click on Start: the handler up to its await of ensureLibraries().
StartClick ==
  /\ Quiet
  /\ ~page.startDisabled
  /\ page.loading + page.initialising < MaxSetups
  /\ Len(logEl) < MaxLines
  /\ page' = [page EXCEPT !.startDisabled = TRUE, !.stopDisabled = FALSE,
                          !.moduleDisabled = TRUE, !.loading = @ + 1]
  /\ logEl' = Log(logEl, InitialisingLine)
  /\ obs' = ObsIdle
  /\ UNCHANGED <<now, activeModule, sessionActive, lastFeedbackTime, drawBaselineY,
                 drawStartTime, completedDrawTime, ccw_logs, onPose, detector,
                 running, inferring, scheduled, hist>>

\* ensureLibraries() resolves: setup() goes on to its await of init().
LibrariesLoaded ==
  /\ Quiet
  /\ page.loading > 0
  /\ page' = [page EXCEPT !.loading = @ - 1, !.initialising = @ + 1]
  /\ obs' = ObsIdle
  /\ UNCHANGED <<now, trainingVars, detector, running, inferring, scheduled, hist>>

\* ensureLibraries() or init() rejects: the handler's catch block.
SetupRejects(awaited) ==
  /\ Quiet
  /\ page[awaited] > 0
  /\ page' = ButtonsIdle([page EXCEPT ![awaited] = @ - 1])
  /\ logEl' = Log(logEl, SetupErrorLine)
  /\ obs' = ObsIdle
  /\ UNCHANGED <<now, activeModule, sessionActive, lastFeedbackTime, drawBaselineY,
                 drawStartTime, completedDrawTime, ccw_logs, onPose, detector,
                 running, inferring, scheduled, hist>>

\* init() resolves with the detector created: setup() logs and returns, and
\* the handler resumes.
CameraReady ==
  /\ Quiet
  /\ page.initialising > 0
  /\ inferring + scheduled < MaxLoops
  /\ detector' = TRUE
  /\ logEl' = Log(logEl, ReadyLine)
  /\ page' = [page EXCEPT !.initialising = @ - 1, !.resumed = "start"]
  /\ obs' = ObsIdle
  /\ UNCHANGED <<now, activeModule, sessionActive, lastFeedbackTime, drawBaselineY,
                 drawStartTime, completedDrawTime, ccw_logs, onPose,
                 running, inferring, scheduled, hist>>

\* The resumed handler reads the selector and calls trainingModule.start.
SessionStart ==
  /\ page.resumed = "start"
  /\ Start(page.value)
  /\ page' = [page EXCEPT !.resumed = "log"]

\* The resumed handler's last statement, log('Session started.').
SessionStarted ==
  /\ page.resumed = "log"
  /\ logEl' = Log(logEl, SessionStartedLine)
  /\ page' = [page EXCEPT !.resumed = "none"]
  /\ obs' = ObsIdle
  /\ UNCHANGED <<now, activeModule, sessionActive, lastFeedbackTime, drawBaselineY,
                 drawStartTime, completedDrawTime, ccw_logs, onPose, detector,
                 running, inferring, scheduled, hist>>

\* A click on Stop: trainingModule?.stop(), then the finally block.
StopClick ==
  /\ Quiet
  /\ ~page.stopDisabled
  /\ Stop
  /\ page' = ButtonsIdle(page)

PageNext ==
  \/ \E module \in Modules : SelectModule(module)
  \/ StartClick
  \/ LibrariesLoaded
  \/ \E awaited \in {"loading", "initialising"} : SetupRejects(awaited)
  \/ CameraReady
  \/ SessionStart
  \/ SessionStarted
  \/ StopClick
  \/ Quiet /\ InferEmpty
  \/ Quiet /\ LoopIterate

PageSpec == PageInit /\ [][PageNext]_vars

\* C29: whenever a session is active the Stop button is enabled and the Start
\* button is disabled.
C29_ButtonsFollowSession ==
  sessionActive => ~page.stopDisabled /\ page.startDisabled


\* ------------------------------------------------- sessions on a finer clock
\* SessionsSpec is the system with start() called only while idle and
\* Date.now() read at three instants: the first, one throttle period later,
\* and one millisecond after that.
Instants == {Epoch, Epoch + ThrottleMs, Epoch + Horizon}

SessionsNext ==
  \/ \E t \in Instants : t > now /\ Tick(t - now)
  \/ VisionInit
  \/ \E module \in Modules : IdleStart(module) /\ UNCHANGED page
  \/ Stop /\ UNCHANGED page
  \/ \E metrics \in MetricsInputs : InferPose(metrics)
  \/ InferEmpty
  \/ InferThrows
  \/ LoopIterate

SessionsSpec == Init /\ [][SessionsNext]_vars

\* C30: a duration passed to generateFeedback, or shown in the transcript, by
\* a frame of a session was completed by a frame of that same session: by
\* this frame, or by an earlier one of the session and not yet reported.
C30_NoLeakAcrossSessions ==
  [][(obs'.op = "frame" /\ obs'.fbCalled /\ hist.active) =>
       /\ obs'.fbDraw # Null => (obs'.emitted # Null \/ hist.unreported)
       /\ (logEl' # logEl /\ DrawMessages(logEl'[Len(logEl')]) # <<>>) =>
             (obs'.emitted # Null \/ hist.unreported)]_vars


\* ------------------------------------------------------------ failed start
\* C31: a start() made while idle in which VisionEngine.start throws leaves
\* the controller idle, and a stop() that follows it appends nothing to the
\* transcript or to the stored history.
C31_FailedStartLeavesIdle ==
  [][/\ (obs'.op = "start" /\ obs'.threw /\ ~sessionActive) => ~sessionActive'
     /\ (obs.op = "start" /\ obs.threw /\ ~obs.wasActive /\ obs'.op = "stop") =>
          /\ logEl' = logEl
          /\ ccw_logs' = ccw_logs]_vars


\* -------------------------------------------------------- inference errors
\* C32: a rejected estimatePoses does not end the loop.  The iteration it
\* belongs to queues the next one and touches nothing of the engine or the
\* controller; while the engine is running that next iteration awaits
\* estimatePoses again; and a running engine always has a live loop to
\* deliver the detections that follow.
C32_ErrorKeepsLoop ==
  /\ [](running => LiveLoops >= 1)
  /\ [][(obs'.op = "error" =>
            /\ scheduled' = scheduled + 1
            /\ inferring' = inferring - 1
            /\ UNCHANGED <<running, detector, trainingVars>>)
        /\ ((obs.op = "error" /\ running /\ LoopIterate) =>
              inferring' = inferring + 1)]_vars

\* An estimatePoses has just been rejected in a running engine with an active
\* session, and the loop is queued for its next animation frame.
C32_Witness ==
  obs.op = "error" /\ running /\ sessionActive /\ scheduled >= 1


\* ------------------------------------------------------- loop termination
\* FairSpec is the system at one reading of the clock, in which a queued
\* animation-frame callback is eventually run and an awaited estimatePoses
\* eventually settles.
InferenceSettles ==
  \/ \E metrics \in MetricsInputs : InferPose(metrics)
  \/ InferEmpty
  \/ InferThrows

FairNext ==
  \/ VisionInit
  \/ \E module \in Modules : Start(module) /\ UNCHANGED page
  \/ Stop /\ UNCHANGED page
  \/ \E metrics \in MetricsInputs : InferPose(metrics)
  \/ InferEmpty
  \/ InferThrows
  \/ LoopIterate

FairSpec ==
  Init /\ [][FairNext]_vars /\ WF_vars(LoopIterate) /\ WF_vars(InferenceSettles)

\* C33: once the engine is stopped, unless a start() sets it running again,
\* a state is reached in which no loop is live; and from such a state, until
\* the next start(), no iteration is queued and no frame is delivered.
C33_LoopTerminates ==
  /\ ~running ~> (LiveLoops = 0 \/ running)
  /\ [][(~running /\ LiveLoops = 0 /\ obs'.op # "start") =>
          (LiveLoops' = 0 /\ obs'.op # "frame")]_vars

\* After a session that received feedback was stopped, the engine is idle
\* with no loop live.
C33_Witness ==
  /\ detector /\ ~running /\ ~sessionActive /\ hist.stops > 0 /\ hist.fbCalls >= 1
  /\ LiveLoops = 0
====
